---- MODULE Spec2Model ----
(***************************************************************************)
(* DenseFeatures (tensorflow/python/feature_column/dense_features.py):     *)
(* a layer holding an ordered collection of feature columns and a state    *)
(* manager; call(features, cols_to_output_tensors) resolves every column   *)
(* against one transformation cache, reshapes each tensor to               *)
(* (batch, num_elements) and concatenates them along the last axis.        *)
(*                                                                         *)
(* The statements of call are modelled one action per statement, so that   *)
(* an exception raised part-way leaves exactly the effects the statements  *)
(* before it had.  The collaborators that live in feature_column_v2 (the   *)
(* base layer, the columns, the transformation cache) are modelled from    *)
(* their documented behaviour.                                             *)
(***************************************************************************)
EXTENDS Integers, Sequences, FiniteSets, TLC

\* ------------------------------------------------------------------ bounds
\* Largest batch size of an input tensor.
MaxBatch == 2
\* Largest number of feature columns handed to the constructor.
MaxCols == 2

\* ------------------------------------------------------------- data model
\* Raw values of an input tensor.
Vals == {1, 2}
\* The input tensors of one batch size: the two that alternate the values.
InputTensor(b, first) == [r \in 1..b |-> IF r % 2 = 1 THEN first ELSE 3 - first]
\* Values of the embedding weight the state manager owns.
Weights == {1, 2}
\* Keys of the features dictionary.
Keys == {"price", "kw"}

\* The feature columns of the model: a numeric column, an embedding column,
\* a dense column whose tensor does not have the number of elements its
\* variable_shape announces, and a categorical column (not a DenseColumn).
Columns == {"price", "kw_embedding", "price_malformed", "kw_categorical"}

\* A tensor is its shape and its elements in row-major order; NoTensor
\* stands for "no value".
NoTensor == [shape |-> <<>>, data |-> <<>>]

Tensor(shape, data) == [shape |-> shape, data |-> data]

\* The exceptions of the model; NoError stands for "none raised".
NoError == [type |-> "none", origin |-> "none"]

Error(type, origin) == [type |-> type, origin |-> origin]

RECURSIVE Product(_)
Product(s) == IF s = <<>> THEN 1 ELSE Head(s) * Product(Tail(s))

RECURSIVE SumSeq(_)
SumSeq(s) == IF s = <<>> THEN 0 ELSE Head(s) + SumSeq(Tail(s))

RECURSIVE Flatten(_)
Flatten(ss) == IF ss = <<>> THEN <<>> ELSE Head(ss) \o Flatten(Tail(ss))

Range(s) == {s[i] : i \in DOMAIN s}

NoDuplicates(s) == \A i, j \in DOMAIN s : i # j => s[i] # s[j]

\* Row r (1-based) of a rank-2 tensor.
Row(t, r) == SubSeq(t.data, (r - 1) * t.shape[2] + 1, r * t.shape[2])

\* ------------------------------------------------- feature columns (fc.*)
\* isinstance(column, fc.DenseColumn)
IsDenseColumn(column) == column # "kw_categorical"

\* column.variable_shape
variable_shape(column) ==
    CASE column = "price" -> <<1, 1>>
      [] column = "kw_embedding" -> <<2>>
      [] column = "price_malformed" -> <<2>>
      [] OTHER -> <<>>

\* The features key a column looks up.
ColumnKey(column) ==
    IF column \in {"price", "price_malformed"} THEN "price" ELSE "kw"

\* FeatureTransformationCache(features): the dictionary and the memo of
\* the keys already looked up.
FeatureTransformationCache(features) ==
    [features |-> features, memo |-> {}]

NoCache == [features |-> <<>>, memo |-> {}]

\* transformation_cache.get(key): fails when the key is not in features.
CacheGet(cache, key) ==
    IF key \in cache.memo \/ key \in DOMAIN cache.features
    THEN [ok |-> TRUE, value |-> cache.features[key],
          cache |-> [cache EXCEPT !.memo = @ \cup {key}], exc |-> NoError]
    ELSE [ok |-> FALSE, value |-> <<>>, cache |-> cache,
          exc |-> Error("ValueError", "transformation_cache")]

\* The elements one input value contributes to a column's dense tensor.
ColumnRow(column, v, w) ==
    CASE column = "price" -> <<v>>
      [] column = "kw_embedding" -> <<v * w, v * w + 1>>
      [] column = "price_malformed" -> <<v, v + 1, v + 2>>
      [] OTHER -> <<>>

\* column.get_dense_tensor(transformation_cache, state_manager)
get_dense_tensor(column, cache, w) ==
    LET got == CacheGet(cache, ColumnKey(column))
        rows == [r \in DOMAIN got.value |-> ColumnRow(column, got.value[r], w)]
        shape == IF column = "price_malformed"
                 THEN <<Len(got.value), 3>>
                 ELSE <<Len(got.value)>> \o variable_shape(column)
    IN  IF got.ok
        THEN [ok |-> TRUE, cache |-> got.cache, exc |-> NoError,
              tensor |-> Tensor(shape, Flatten(rows))]
        ELSE [ok |-> FALSE, cache |-> got.cache, exc |-> got.exc,
              tensor |-> NoTensor]

\* ---------------------------------------------------- DenseFeatures helpers
\* Mutation: the two dimensions of the target shape are swapped.
_target_shape_swapped(input_shape, total_elements) ==
    <<total_elements, input_shape[1]>>

\* DenseFeatures._target_shape(input_shape, total_elements)
_target_shape(input_shape, total_elements) == <<input_shape[1], total_elements>>

\* array_ops.reshape(tensor, shape): fails when the element counts differ.
Reshape(tensor, shape) ==
    IF Product(shape) = Len(tensor.data)
    THEN [ok |-> TRUE, tensor |-> Tensor(shape, tensor.data), exc |-> NoError]
    ELSE [ok |-> FALSE, tensor |-> NoTensor,
          exc |-> Error("InvalidArgumentError", "reshape")]

\* _BaseFeaturesLayer._process_dense_tensor(column, tensor)
_process_dense_tensor(column, tensor) ==
    Reshape(tensor,
            _target_shape(tensor.shape, Product(variable_shape(column))))

\* Row r of the concatenation along the last axis.
ConcatRow(tensors, r) == Flatten([i \in DOMAIN tensors |-> Row(tensors[i], r)])

\* array_ops.concat(output_tensors, -1) of rank-2 tensors of one batch size.
Concat(tensors) ==
    LET batch == tensors[1].shape[1]
        width == SumSeq([i \in DOMAIN tensors |-> tensors[i].shape[2]])
    IN  Tensor(<<batch, width>>,
               Flatten([r \in 1..batch |-> ConcatRow(tensors, r)]))

\* _BaseFeaturesLayer._verify_and_concat_tensors(output_tensors): the batch
\* sizes must agree, and there must be something to concatenate.
_verify_and_concat_tensors(output_tensors) ==
    IF output_tensors = <<>>
           \/ \E i, j \in DOMAIN output_tensors :
                  output_tensors[i].shape[1] # output_tensors[j].shape[1]
    THEN [ok |-> FALSE, tensor |-> NoTensor,
          exc |-> Error("ValueError", "_verify_and_concat_tensors")]
    ELSE [ok |-> TRUE, tensor |-> Concat(output_tensors), exc |-> NoError]

\* ------------------------------------------------------------------ state
VARIABLES
    pc,                      \* "new", "init_raised", "idle", or the statement of call about to run
    init_arg,                \* the columns handed to __init__ (as a set)
    init_exc,                \* the exception __init__ raised
    _feature_columns,        \* self._feature_columns
    _state_manager,          \* self._state_manager (a reference)
    weight,                  \* the variable the state manager owns
    features,                \* call's argument: [kind, items]
    cols_to_output_tensors,  \* call's argument: [given, map]; the caller's object
    supplied,                \* the caller's mapping as it was when call started
    call_weight,             \* the state manager's variable as it was when call started
    transformation_cache,    \* local of call
    output_tensors,          \* local of call
    column,                  \* local of call: index of the loop's column
    tensor,                  \* local of call
    processed_tensors,       \* local of call
    outcome,                 \* how the last call ended: [status, tensor, exc]
    trace,                   \* the operations the current (or last) call performed
    remembered               \* an earlier call kept for comparison

vars == <<pc, init_arg, init_exc, _feature_columns, _state_manager, weight,
          features, cols_to_output_tensors, supplied, call_weight,
          transformation_cache, output_tensors, column, tensor,
          processed_tensors, outcome, trace, remembered>>

layer_vars == <<init_arg, init_exc, _feature_columns, _state_manager>>

\* The locals of call.
frame_vars == <<transformation_cache, output_tensors, column, tensor,
                processed_tensors>>

call_vars == <<features, cols_to_output_tensors, supplied, call_weight,
               frame_vars, outcome, trace>>

\* ----------------------------------------------------------------- inputs
\* Python types of the objects handed to call as features; the first two
\* are dict and a subclass of it, the third is a collections.abc.Mapping
\* that is not a dict, the last is no mapping at all.
ArgKinds == {"dict", "OrderedDict", "MappingProxyType", "list"}

\* Mutation: the check of the argument is left out.
IsInstanceDict_unchecked(kind) == TRUE

\* Mutation: the check accepts every collections.abc.Mapping.
IsInstanceDict_anyMapping(kind) == kind # "list"

\* isinstance(features, dict)
IsInstanceDict(kind) == kind \in {"dict", "OrderedDict"}

\* isinstance(features, collections.abc.Mapping)
IsMapping(kind) == kind # "list"

InputTensors == {InputTensor(b, v) : b \in 1..MaxBatch, v \in Vals}

\* The dictionaries: any keys, any input tensor under each.
ItemSets == UNION {[ks -> InputTensors] : ks \in SUBSET Keys}

\* Those among them that the other kinds of argument are tried with.
FewItemSets == {m \in ItemSets : \A k \in DOMAIN m : m[k] = InputTensor(1, 1)}

FeatureArgs ==
    {[kind |-> "dict", items |-> m] : m \in ItemSets}
        \cup {[kind |-> k, items |-> m] :
                  k \in {"OrderedDict", "MappingProxyType"}, m \in FewItemSets}
        \cup {[kind |-> "list", items |-> <<>>]}

StaleTensor == Tensor(<<1, 1>>, <<0>>)

\* cols_to_output_tensors: None, an empty dict, or a dict that already holds
\* an entry.
ColsToArgs ==
    {[given |-> FALSE, map |-> <<>>], [given |-> TRUE, map |-> <<>>]}
        \cup {[given |-> TRUE, map |-> (c :> StaleTensor)] :
                  c \in {"price", "kw_embedding"}}

ColumnSeqs == UNION {[1..n -> Columns] : n \in 1..MaxCols}

NoOutcome == [status |-> "none", tensor |-> NoTensor, exc |-> NoError]

NotRemembered ==
    [set |-> FALSE, features |-> <<>>, given |-> FALSE, weight |-> 0,
     outcome |-> NoOutcome]

Event(op, c) == [op |-> op, column |-> c]

Init ==
    /\ pc = "new"
    /\ init_arg = {}
    /\ init_exc = NoError
    /\ _feature_columns = <<>>
    /\ _state_manager = "unset"
    /\ weight \in Weights
    /\ features = [kind |-> "dict", items |-> <<>>]
    /\ cols_to_output_tensors = [given |-> FALSE, map |-> <<>>]
    /\ supplied = <<>>
    /\ call_weight = weight
    /\ transformation_cache = NoCache
    /\ output_tensors = <<>>
    /\ column = 0
    /\ tensor = NoTensor
    /\ processed_tensors = NoTensor
    /\ outcome = NoOutcome
    /\ trace = <<>>
    /\ remembered = NotRemembered

\* ------------------------------------------------------------ construction
\* Mutation: __init__ asks the base layer for any FeatureColumn.
expected_column_type_any == "FeatureColumn"

\* The expected_column_type DenseFeatures.__init__ passes to the base layer.
expected_column_type == "DenseColumn"

\* isinstance(c, type)
IsInstance(c, type) ==
    CASE type = "DenseColumn" -> IsDenseColumn(c)
      [] OTHER -> TRUE

\* _BaseFeaturesLayer.__init__: stores the given columns (each once, in the
\* order the base layer settles) and a state manager, or raises when a
\* column is not of the expected type.
BaseInit(feature_columns, stored, type) ==
    IF \E c \in Range(feature_columns) : ~IsInstance(c, type)
    THEN /\ pc' = "init_raised"
         /\ init_exc' = Error("ValueError", "__init__")
         /\ UNCHANGED <<_feature_columns, _state_manager>>
    ELSE /\ pc' = "idle"
         /\ _feature_columns' = stored
         /\ _state_manager' = "_StateManagerImpl"
         /\ UNCHANGED init_exc

\* DenseFeatures.__init__(feature_columns)
Construct ==
    /\ pc = "new"
    /\ \E feature_columns \in ColumnSeqs :
         \E stored \in ColumnSeqs :
            /\ NoDuplicates(stored)
            /\ Range(stored) = Range(feature_columns)
            /\ init_arg' = Range(feature_columns)
            /\ BaseInit(feature_columns, stored, expected_column_type)
    /\ UNCHANGED <<weight, remembered>>
    /\ UNCHANGED call_vars

\* -------------------------------------------------------------------- call
\* Mutation: call wraps what a column raised in its own ValueError.
Raise_translated(exc) ==
    /\ pc' = "idle"
    /\ outcome' = [status |-> "raised", tensor |-> NoTensor,
                   exc |-> Error("ValueError", "call")]
    /\ UNCHANGED <<cols_to_output_tensors, frame_vars>>

\* Mutation: call empties the entries it wrote before the exception leaves.
Raise_rollsBack(exc) ==
    /\ pc' = "idle"
    /\ outcome' = [status |-> "raised", tensor |-> NoTensor, exc |-> exc]
    /\ cols_to_output_tensors' = [cols_to_output_tensors EXCEPT !.map = supplied]
    /\ UNCHANGED frame_vars

\* An exception leaves call: nothing in call catches it, and what call did
\* before stays done.
Raise(exc) ==
    /\ pc' = "idle"
    /\ outcome' = [status |-> "raised", tensor |-> NoTensor, exc |-> exc]
    /\ UNCHANGED <<cols_to_output_tensors, frame_vars>>

\* Mutation: output_tensors is a list the layer keeps (an attribute, or a
\* mutable default), not a fresh one per call.
CallEnter_keepsList(f, cols) ==
    /\ pc = "idle"
    /\ features' = f
    /\ supplied' = cols.map
    /\ call_weight' = weight
    /\ IF ~IsInstanceDict(f.kind)
       THEN /\ pc' = "idle"
            /\ outcome' = [status |-> "raised", tensor |-> NoTensor,
                           exc |-> Error("ValueError", "call")]
            /\ cols_to_output_tensors' = cols
            /\ trace' = <<>>
            /\ transformation_cache' = NoCache
            /\ column' = 0
            /\ tensor' = NoTensor
            /\ processed_tensors' = NoTensor
            /\ UNCHANGED output_tensors
       ELSE /\ transformation_cache' = FeatureTransformationCache(f.items)
            /\ UNCHANGED output_tensors
            /\ column' = 0
            /\ pc' = "for"
            /\ outcome' = NoOutcome
            /\ cols_to_output_tensors' = cols
            /\ trace' = <<Event("FeatureTransformationCache", "")>>
            /\ tensor' = NoTensor
            /\ processed_tensors' = NoTensor
    /\ UNCHANGED <<layer_vars, weight, remembered>>

\* call(features, cols_to_output_tensors), up to the loop: a new frame, the
\* check of the argument, the transformation cache and the empty list.  (The
\* locals keep their last values once call has ended, for inspection.)
CallEnter(f, cols) ==
    /\ pc = "idle"
    /\ features' = f
    /\ supplied' = cols.map
    /\ call_weight' = weight
    /\ IF ~IsInstanceDict(f.kind)
       THEN /\ pc' = "idle"
            /\ outcome' = [status |-> "raised", tensor |-> NoTensor,
                           exc |-> Error("ValueError", "call")]
            /\ cols_to_output_tensors' = cols
            /\ trace' = <<>>
            /\ transformation_cache' = NoCache
            /\ output_tensors' = <<>>
            /\ column' = 0
            /\ tensor' = NoTensor
            /\ processed_tensors' = NoTensor
       ELSE /\ transformation_cache' = FeatureTransformationCache(f.items)
            /\ output_tensors' = <<>>
            /\ column' = 0
            /\ pc' = "for"
            /\ outcome' = NoOutcome
            /\ cols_to_output_tensors' = cols
            /\ trace' = <<Event("FeatureTransformationCache", "")>>
            /\ tensor' = NoTensor
            /\ processed_tensors' = NoTensor
    /\ UNCHANGED <<layer_vars, weight, remembered>>

\* Mutation: the transformation cache is built inside the loop, once per
\* column.
GetDenseTensor_cachePerColumn ==
    /\ pc = "for"
    /\ column < Len(_feature_columns)
    /\ LET c == _feature_columns[column + 1]
           r == get_dense_tensor(c, FeatureTransformationCache(features.items),
                                 weight)
       IN  /\ trace' = trace \o <<Event("FeatureTransformationCache", ""),
                                  Event("get_dense_tensor", c)>>
           /\ IF r.ok
              THEN /\ column' = column + 1
                   /\ tensor' = r.tensor
                   /\ transformation_cache' = r.cache
                   /\ pc' = "process"
                   /\ UNCHANGED <<output_tensors, processed_tensors, outcome,
                                  cols_to_output_tensors>>
              ELSE Raise(r.exc)
    /\ UNCHANGED <<layer_vars, weight, remembered, features, supplied,
                   call_weight>>

\* for column in self._feature_columns: the next column, and
\* tensor = column.get_dense_tensor(transformation_cache, self._state_manager)
\* (weight is the variable the column reaches through the state manager).
GetDenseTensor ==
    /\ pc = "for"
    /\ column < Len(_feature_columns)
    /\ LET c == _feature_columns[column + 1]
           r == get_dense_tensor(c, transformation_cache, weight)
       IN  /\ trace' = Append(trace, Event("get_dense_tensor", c))
           /\ IF r.ok
              THEN /\ column' = column + 1
                   /\ tensor' = r.tensor
                   /\ transformation_cache' = r.cache
                   /\ pc' = "process"
                   /\ UNCHANGED <<output_tensors, processed_tensors, outcome,
                                  cols_to_output_tensors>>
              ELSE Raise(r.exc)
    /\ UNCHANGED <<layer_vars, weight, remembered, features, supplied,
                   call_weight>>

\* processed_tensors = self._process_dense_tensor(column, tensor)
ProcessDenseTensor ==
    /\ pc = "process"
    /\ LET c == _feature_columns[column]
           r == _process_dense_tensor(c, tensor)
       IN  /\ trace' = Append(trace, Event("_process_dense_tensor", c))
           /\ IF r.ok
              THEN /\ processed_tensors' = r.tensor
                   /\ pc' = "record"
                   /\ UNCHANGED <<transformation_cache, output_tensors, column,
                                  tensor, outcome, cols_to_output_tensors>>
              ELSE Raise(r.exc)
    /\ UNCHANGED <<layer_vars, weight, remembered, features, supplied,
                   call_weight>>

\* Mutation: "if cols_to_output_tensors:", which skips an empty dict.
Record_ifTruthy ==
    /\ pc = "record"
    /\ LET c == _feature_columns[column]
       IN  IF cols_to_output_tensors.given /\ cols_to_output_tensors.map # <<>>
           THEN /\ cols_to_output_tensors' =
                      [cols_to_output_tensors EXCEPT
                          !.map = (c :> processed_tensors) @@ @]
                /\ trace' = Append(trace, Event("record", c))
           ELSE UNCHANGED <<cols_to_output_tensors, trace>>
    /\ pc' = "append"
    /\ UNCHANGED <<layer_vars, weight, remembered, features, supplied,
                   call_weight, frame_vars, outcome>>

\* Mutation: the loop consumes the layer's list of columns.
AppendOutput_popsColumn ==
    /\ pc = "append"
    /\ output_tensors' = Append(output_tensors, processed_tensors)
    /\ trace' = Append(trace, Event("append", _feature_columns[column]))
    /\ pc' = "for"
    /\ _feature_columns' = Tail(_feature_columns)
    /\ column' = column - 1
    /\ UNCHANGED <<init_arg, init_exc, _state_manager, weight, remembered,
                   features, cols_to_output_tensors, supplied, call_weight,
                   transformation_cache, tensor, processed_tensors, outcome>>

\* if cols_to_output_tensors is not None:
\*   cols_to_output_tensors[column] = processed_tensors
Record ==
    /\ pc = "record"
    /\ LET c == _feature_columns[column]
       IN  IF cols_to_output_tensors.given
           THEN /\ cols_to_output_tensors' =
                      [cols_to_output_tensors EXCEPT
                          !.map = (c :> processed_tensors) @@ @]
                /\ trace' = Append(trace, Event("record", c))
           ELSE UNCHANGED <<cols_to_output_tensors, trace>>
    /\ pc' = "append"
    /\ UNCHANGED <<layer_vars, weight, remembered, features, supplied,
                   call_weight, frame_vars, outcome>>

\* output_tensors.append(processed_tensors)
AppendOutput ==
    /\ pc = "append"
    /\ output_tensors' = Append(output_tensors, processed_tensors)
    /\ trace' = Append(trace, Event("append", _feature_columns[column]))
    /\ pc' = "for"
    /\ UNCHANGED <<layer_vars, weight, remembered, features,
                   cols_to_output_tensors, supplied, call_weight,
                   transformation_cache, column, tensor, processed_tensors,
                   outcome>>

\* return self._verify_and_concat_tensors(output_tensors)
Return ==
    /\ pc = "for"
    /\ column = Len(_feature_columns)
    /\ LET r == _verify_and_concat_tensors(output_tensors)
       IN  /\ trace' = Append(trace, Event("_verify_and_concat_tensors", ""))
           /\ IF r.ok
              THEN /\ pc' = "idle"
                   /\ outcome' = [status |-> "returned", tensor |-> r.tensor,
                                  exc |-> NoError]
                   /\ UNCHANGED <<cols_to_output_tensors, frame_vars>>
              ELSE Raise(r.exc)
    /\ UNCHANGED <<layer_vars, weight, remembered, features, supplied,
                   call_weight>>

\* ------------------------------------------------------------- environment
\* Training changes the variable the state manager owns, between calls.
UpdateVariables ==
    /\ pc = "idle"
    /\ weight' \in Weights \ {weight}
    /\ UNCHANGED <<pc, layer_vars, remembered>>
    /\ UNCHANGED call_vars

Call == \E f \in FeatureArgs : \E cols \in ColsToArgs : CallEnter(f, cols)

Next ==
    \/ Construct
    \/ Call
    \/ GetDenseTensor
    \/ ProcessDenseTensor
    \/ Record
    \/ AppendOutput
    \/ Return
    \/ UpdateVariables

Spec == Init /\ [][Next]_vars

\* ------------------------------------------------- comparing two calls
\* The arguments of the calls that are compared: a dict with every key, the
\* tensors of one batch size, or an empty dict; None or an empty dict as
\* cols_to_output_tensors.
RepeatFeatureArgs ==
    {[kind |-> "dict", items |-> m] :
        m \in {x \in ItemSets :
                  \/ DOMAIN x = {}
                  \/ /\ DOMAIN x = Keys
                     /\ \A k1, k2 \in Keys : Len(x[k1]) = Len(x[k2])}}

RepeatColsToArgs ==
    {[given |-> FALSE, map |-> <<>>], [given |-> TRUE, map |-> <<>>]}

RepeatCall ==
    \E f \in RepeatFeatureArgs : \E cols \in RepeatColsToArgs : CallEnter(f, cols)

\* The caller keeps the arguments and the outcome of a call that has ended,
\* to compare a later call with.
Remember ==
    /\ pc = "idle"
    /\ outcome.status # "none"
    /\ ~remembered.set
    /\ remembered' = [set |-> TRUE, features |-> features,
                      given |-> cols_to_output_tensors.given,
                      weight |-> call_weight, outcome |-> outcome]
    /\ UNCHANGED <<pc, layer_vars, weight>>
    /\ UNCHANGED call_vars

NextRepeat ==
    \/ Construct
    \/ RepeatCall
    \/ GetDenseTensor
    \/ ProcessDenseTensor
    \/ Record
    \/ AppendOutput
    \/ Return
    \/ UpdateVariables
    \/ Remember

SpecRepeat == Init /\ [][NextRepeat]_vars

\* ------------------------------------------------------------- properties
\* A call has been started on the layer (and may have ended).
CallMade == pc \notin {"new", "init_raised"} /\ (pc # "idle" \/ outcome.status # "none")

\* The error of call's own check of its argument.
LocalError == Error("ValueError", "call")

\* C1: a call whose features argument is not a mapping raises ValueError and
\* computes nothing: no transformation cache, no get_dense_tensor, nothing
\* accumulated or concatenated, and the caller's cols_to_output_tensors is
\* as it was supplied.
C1_NonMappingRaisesAndComputesNothing ==
    (CallMade /\ ~IsMapping(features.kind)) =>
        /\ pc = "idle"
        /\ outcome = [status |-> "raised", tensor |-> NoTensor, exc |-> LocalError]
        /\ trace = <<>>
        /\ transformation_cache = NoCache
        /\ output_tensors = <<>>
        /\ cols_to_output_tensors.map = supplied

C1_Witness ==
    /\ pc = "idle"
    /\ features.kind = "list"
    /\ outcome.status = "raised"
    /\ cols_to_output_tensors.given
    /\ supplied # <<>>

\* C6 as stated: the local input-type error is raised if and only if the
\* argument is not a mapping.
C6_RaisedIffNotMapping ==
    (CallMade /\ pc = "idle") =>
        ((outcome.status = "raised" /\ outcome.exc = LocalError)
            <=> ~IsMapping(features.kind))

\* C6 amended: the local input-type error is raised if and only if the
\* argument is not an instance of dict (dict or a subclass of it); a mapping
\* of another kind is rejected like any other object.
C6_RaisedIffNotDict ==
    (CallMade /\ pc = "idle") =>
        ((outcome.status = "raised" /\ outcome.exc = LocalError)
            <=> features.kind \notin {"dict", "OrderedDict"})

C6_Witness ==
    /\ pc = "idle"
    /\ features.kind = "MappingProxyType"
    /\ DOMAIN features.items = Keys
    /\ outcome.status = "raised"
    /\ outcome.exc = LocalError

\* C4: a constructor call with a column that is not a DenseColumn raises
\* ValueError and leaves no layer to call; a constructed layer stores dense
\* columns only.
C4_OnlyDenseColumns ==
    pc # "new" =>
        IF \E c \in init_arg : ~IsDenseColumn(c)
        THEN /\ pc = "init_raised"
             /\ init_exc = Error("ValueError", "__init__")
             /\ _feature_columns = <<>>
             /\ outcome = NoOutcome
             /\ trace = <<>>
        ELSE /\ pc # "init_raised"
             /\ Range(_feature_columns) = init_arg
             /\ \A c \in Range(_feature_columns) : IsDenseColumn(c)

C4_Witness ==
    /\ pc = "init_raised"
    /\ "kw_categorical" \in init_arg
    /\ "price" \in init_arg

\* The width each stored column contributes: the number of elements of
\* its variable_shape.
Widths == [i \in DOMAIN _feature_columns |->
              Product(variable_shape(_feature_columns[i]))]

\* C2: a call that returns over the stored columns c1..cn of widths w1..wn
\* returns a tensor of shape (batch_size, w1+...+wn) in which, in every row,
\* the columns [w1+...+w(i-1), w1+...+wi) are the row of ci's tensor.
C2_ConcatenationInStoredOrder ==
    (pc = "idle" /\ outcome.status = "returned") =>
        LET n == Len(_feature_columns)
            out == outcome.tensor
            batch == Len(features.items[ColumnKey(_feature_columns[1])])
            total == SumSeq(Widths)
            offset(i) == SumSeq(SubSeq(Widths, 1, i - 1))
        IN  /\ out.shape = <<batch, total>>
            /\ Len(out.data) = batch * total
            /\ Len(output_tensors) = n
            /\ \A i \in 1..n :
                 /\ output_tensors[i].shape = <<batch, Widths[i]>>
                 /\ \A r \in 1..batch : \A j \in 1..Widths[i] :
                      out.data[(r - 1) * total + offset(i) + j]
                          = output_tensors[i].data[(r - 1) * Widths[i] + j]

C2_Witness ==
    /\ pc = "idle"
    /\ outcome.status = "returned"
    /\ _feature_columns = <<"price", "kw_embedding">>
    /\ outcome.tensor.shape = <<2, 3>>
    /\ outcome.tensor.data[1] # outcome.tensor.data[4]

\* C3: when cols_to_output_tensors is supplied (an empty dict included) and
\* the call returns, the mapping holds, under every stored column, the
\* tensor that was appended to output_tensors for it.
C3_MappingHoldsEveryColumn ==
    (pc = "idle" /\ outcome.status = "returned" /\ cols_to_output_tensors.given) =>
        \A i \in DOMAIN _feature_columns :
            /\ _feature_columns[i] \in DOMAIN cols_to_output_tensors.map
            /\ cols_to_output_tensors.map[_feature_columns[i]] = output_tensors[i]

C3_Witness ==
    /\ pc = "idle"
    /\ outcome.status = "returned"
    /\ cols_to_output_tensors.given
    /\ supplied = <<>>
    /\ Len(_feature_columns) = 2
    /\ DOMAIN cols_to_output_tensors.map = {"price", "kw_embedding"}

\* C7: when get_dense_tensor or _process_dense_tensor fails for a column,
\* that step ends the call with the very exception the column raised: no
\* further operation is performed, nothing is concatenated and no tensor is
\* returned.
C7_FailurePropagatesUnmodified ==
    [][/\ (pc = "for" /\ column < Len(_feature_columns)) =>
            LET c == _feature_columns[column + 1]
                r == get_dense_tensor(c, transformation_cache, weight)
            IN  ~r.ok =>
                  /\ pc' = "idle"
                  /\ outcome' = [status |-> "raised", tensor |-> NoTensor,
                                 exc |-> r.exc]
                  /\ trace' = Append(trace, Event("get_dense_tensor", c))
                  /\ output_tensors' = output_tensors
       /\ pc = "process" =>
            LET c == _feature_columns[column]
                r == _process_dense_tensor(c, tensor)
            IN  ~r.ok =>
                  /\ pc' = "idle"
                  /\ outcome' = [status |-> "raised", tensor |-> NoTensor,
                                 exc |-> r.exc]
                  /\ trace' = Append(trace, Event("_process_dense_tensor", c))
                  /\ output_tensors' = output_tensors
      ]_vars

C7_Witness ==
    /\ pc = "idle"
    /\ outcome.status = "raised"
    /\ outcome.exc = Error("InvalidArgumentError", "reshape")
    /\ _feature_columns = <<"price_malformed", "kw_embedding">>
    /\ trace[Len(trace)] = Event("_process_dense_tensor", "price_malformed")

\* The operations of a whole call over the stored columns, in order.
ExpectedTrace ==
    <<Event("FeatureTransformationCache", "")>>
        \o Flatten([i \in DOMAIN _feature_columns |->
               <<Event("get_dense_tensor", _feature_columns[i]),
                 Event("_process_dense_tensor", _feature_columns[i])>>
               \o (IF cols_to_output_tensors.given
                   THEN <<Event("record", _feature_columns[i])>> ELSE <<>>)
               \o <<Event("append", _feature_columns[i])>>])
        \o <<Event("_verify_and_concat_tensors", "")>>

\* C8: a call on a dict builds one transformation cache over the input
\* mapping and then, column by column in stored order, resolves (against
\* that one cache), reshapes, records if asked and appends, each once; the
\* concatenation comes after the last append.
C8_OneCacheAndStoredOrder ==
    (CallMade /\ features.kind \in {"dict", "OrderedDict"}) =>
        /\ Len(trace) <= Len(ExpectedTrace)
        /\ trace = SubSeq(ExpectedTrace, 1, Len(trace))
        /\ outcome.status = "returned" => trace = ExpectedTrace
        /\ _state_manager = "_StateManagerImpl"
        /\ transformation_cache.features = features.items
        /\ transformation_cache.memo =
               {ColumnKey(_feature_columns[i]) : i \in 1..column}

C8_Witness ==
    /\ pc = "idle"
    /\ outcome.status = "returned"
    /\ cols_to_output_tensors.given
    /\ _feature_columns = <<"kw_embedding", "price">>
    /\ Len(trace) = 10

\* C10: when cols_to_output_tensors is supplied and the k-th stored column
\* fails, the mapping holds the tensors of the columns before the k-th and
\* is otherwise as it was supplied: what was written is not taken back and
\* nothing is written for the k-th or a later column.
C10_MappingPartiallyPopulated ==
    (/\ pc = "idle"
     /\ outcome.status = "raised"
     /\ outcome.exc.origin \in {"transformation_cache", "reshape"}
     /\ cols_to_output_tensors.given) =>
        LET done == Len(output_tensors)
            map == cols_to_output_tensors.map
        IN  /\ done < Len(_feature_columns)
            /\ trace[Len(trace)].column = _feature_columns[done + 1]
            /\ \A c \in Columns :
                 IF \E i \in 1..done : _feature_columns[i] = c
                 THEN /\ c \in DOMAIN map
                      /\ \A i \in 1..done :
                           _feature_columns[i] = c => map[c] = output_tensors[i]
                 ELSE /\ c \in DOMAIN map <=> c \in DOMAIN supplied
                      /\ c \in DOMAIN supplied => map[c] = supplied[c]

C10_Witness ==
    /\ pc = "idle"
    /\ outcome.status = "raised"
    /\ cols_to_output_tensors.given
    /\ _feature_columns = <<"price", "kw_embedding">>
    /\ outcome.exc.origin = "transformation_cache"
    /\ DOMAIN supplied = {"kw_embedding"}
    /\ DOMAIN cols_to_output_tensors.map = {"price", "kw_embedding"}

\* C5: two calls of the layer with the same input mapping, made while the
\* state manager's variable has the same value, end the same way: both
\* return the same tensor (or both raise the same exception), wherever in
\* the sequence of calls they are.
C5_RepeatedCallSameOutput ==
    (/\ remembered.set
     /\ pc = "idle"
     /\ outcome.status # "none"
     /\ features = remembered.features
     /\ call_weight = remembered.weight) =>
        outcome = remembered.outcome

C5_Witness ==
    /\ remembered.set
    /\ pc = "idle"
    /\ features = remembered.features
    /\ DOMAIN features.items = Keys
    /\ call_weight = remembered.weight
    /\ weight # call_weight
    /\ cols_to_output_tensors.given # remembered.given
    /\ outcome.status = "returned"
    /\ Len(_feature_columns) = 2

\* C9: once the layer is constructed, no step changes its stored columns or
\* its state manager reference, and a call starts from nothing an earlier
\* call left: an empty output_tensors and a transformation cache that is
\* new and over this call's features.
C9_LayerFixedAndCallsStartFresh ==
    /\ [][pc # "new" =>
             /\ _feature_columns' = _feature_columns
             /\ _state_manager' = _state_manager]_vars
    /\ [](pc \notin {"new", "init_raised"} =>
             /\ _state_manager = "_StateManagerImpl"
             /\ Range(_feature_columns) = init_arg
             /\ (pc = "for" /\ column = 0) =>
                   /\ output_tensors = <<>>
                   /\ transformation_cache = FeatureTransformationCache(features.items)
             /\ pc = "for" => Len(output_tensors) = column)

C9_Witness ==
    /\ remembered.set
    /\ remembered.outcome.status = "raised"
    /\ pc = "for"
    /\ column = Len(_feature_columns)
    /\ Len(_feature_columns) = 2

====
